---- MODULE Spec2Model ----
(***************************************************************************)
(* AdvancedNotificationService: the rule monitor (alert rules, cooldown    *)
(* map, per-tick evaluation, action dispatch) and the schedule calculator. *)
(*                                                                         *)
(* JavaScript runs one task at a time; a handler gives up control only at  *)
(* an await on outside I/O (activity read, AsyncStorage write, channel     *)
(* send).  Every action below is one such uninterrupted segment.           *)
(***************************************************************************)
EXTENDS Integers, Sequences, FiniteSets, TLC

(* ------------------------------ bounds --------------------------------- *)
\* createAlertRule calls
MaxCreates == 2
\* updateAlertRule calls
MaxUpdates == 1
\* monitor ticks started by one process
MaxTickRuns == 2
\* number of clock advances
MaxAdvance == 1
\* template and scheduled-notification calls
MaxCalls == 3
\* two-hour steps of the wall clock
MaxPassTime == 3
\* executeAction calls
MaxSends == 1

(* ------------------------- program constants --------------------------- *)
SecPerMin == 60
MsPerSec == 1000

MsPerMinute == SecPerMin * MsPerSec
\* the model's clock moves in steps of one timer period (setInterval, 60000 ms)
StepMs == MsPerMinute

VARIABLES
    clock,          \* Date.now(), in ms
    heap,           \* rule objects: object id -> AlertRule
    alertRules,     \* this.alertRules: sequence of object ids
    activeAlerts,   \* this.activeAlerts: rule id -> last triggered timestamp
    storedRules,    \* the persisted 'alertRules' document
    ticks,          \* processAlertRules invocations (slot -> position)
    runs,           \* number of ticks started so far
    op,             \* the CRUD call in progress, if any
    edits,          \* number of updateAlertRule calls so far
    fires,          \* history: rule object -> its last two trigger times
    deletedObjs,    \* history: objects removed by a completed deleteAlertRule
    firedDeleted,   \* history: objects triggered after their delete completed
    switchedOff,    \* history: ids whose last completed update disabled them
    now,            \* schedule calculator: the current instant
    schedule,       \* schedule calculator: the ScheduleConfig
    nextDate,       \* schedule calculator: the computed next fire time
    templates,      \* this.templates
    storedTemplates,        \* the persisted 'notificationTemplates' document
    scheduledNotifications, \* this.scheduledNotifications
    storedNotifications,    \* the persisted 'scheduledNotifications' document
    registrations,  \* the platform scheduler: identifier -> trigger date
    call,           \* the template or scheduled-notification call in progress
    sent,           \* the executeAction calls and their messages, oldest first
    delivered,      \* history: identifiers whose registration has fired
    calls,          \* number of template and scheduled-notification calls so far
    failed,         \* history: some storage write or scheduler request was rejected
    cond,           \* condition evaluator: the AlertCondition
    window,         \* condition evaluator: the activity window read
    verdict         \* condition evaluator: what evaluateCondition returned

monVars == <<clock, heap, alertRules, activeAlerts, storedRules, ticks, runs, op,
             edits, fires, deletedObjs, firedDeleted, switchedOff>>
schedVars == <<now, schedule, nextDate>>
storeVars == <<templates, storedTemplates, scheduledNotifications, storedNotifications,
               registrations, call, sent, delivered, calls, failed>>
evalVars == <<cond, window, verdict>>
\* what the rule monitor never touches
sideVars == <<schedVars, storeVars, evalVars>>
vars == <<monVars, sideVars>>

(* ------------------------------ helpers -------------------------------- *)
Range(s) == {s[j] : j \in 1..Len(s)}

\* Map.set(key, value)
MapSet(m, key, value) ==
    [x \in DOMAIN m \cup {key} |-> IF x = key THEN value ELSE m[x]]

\* Map.delete(key)
MapDelete(m, key) == [x \in DOMAIN m \ {key} |-> m[x]]

\* { ...old, ...updates }
Spread(old, updates) ==
    [f \in DOMAIN old |-> IF f \in DOMAIN updates THEN updates[f] ELSE old[f]]

Last2(s) == IF Len(s) > 2 THEN SubSeq(s, Len(s) - 1, Len(s)) ELSE s

(* ------------------------- condition evaluator ------------------------- *)
\* condition values: a number, a string, or a {min, max} range
NumV(x) == [k |-> "num", n |-> x]
StrV(x) == [k |-> "str", s |-> x]
RangeV(lo, hi) == [k |-> "range", min |-> lo, max |-> hi]

\* derived metrics are rationals n/d (an average or an hour count need not be whole)
Rat(x, y) == [n |-> x, d |-> y]

RECURSIVE SumAmounts(_)
SumAmounts(cs) == IF cs = <<>> THEN 0 ELSE Head(cs).amount + SumAmounts(Tail(cs))

\* the strings the model uses, and what Number(string) gives for them
\* (-1 stands for NaN; no metric is negative)
NumberOfString(s) == CASE s = "" -> 0
                       [] s = "2" -> 2
                       [] OTHER -> -1

\* decimal digits of a natural, most significant first
RECURSIVE Digits(_)
Digits(x) == IF x < 10 THEN <<x>> ELSE Append(Digits(x \div 10), x % 10)

\* String(expected) as a digit sequence when it is one; <<-1>> marks a string
\* holding a character that no decimal rendering of a number contains
StringOfExpected(expected) ==
    CASE expected.k = "num" -> Digits(expected.n)
      [] expected.k = "str" ->
            IF expected.s = "" THEN <<>>
            ELSE IF NumberOfString(expected.s) >= 0
                 THEN Digits(NumberOfString(expected.s)) ELSE <<-1>>
      [] OTHER -> <<-1>>

\* String.prototype.includes
Includes(hay, needle) ==
    \E j \in 0..(Len(hay) - Len(needle)) :
        \A x \in 1..Len(needle) : hay[j + x] = needle[x]

\* String(actual): the whole part, and for a fraction a point (10) and the
\* first three fraction digits
StringOfActual(a) ==
    LET whole == a.n \div a.d
        rest == a.n % a.d
    IN IF rest = 0 THEN Digits(whole)
       ELSE Digits(whole) \o <<10>> \o
            << (rest * 10) \div a.d,
               ((rest * 10) % a.d * 10) \div a.d,
               (((rest * 10) % a.d * 10) % a.d * 10) \div a.d >>

\* compareValues (and the comparison with `between` leaving out its two ends)
compareValuesExclusive(actual, operator, expected) ==
    CASE operator = "equals" ->
            expected.k = "num" /\ actual.n = expected.n * actual.d
      [] operator = "greater_than" ->
            \/ expected.k = "num" /\ actual.n > expected.n * actual.d
            \/ /\ expected.k = "str"
               /\ NumberOfString(expected.s) >= 0
               /\ actual.n > NumberOfString(expected.s) * actual.d
      [] operator = "less_than" ->
            \/ expected.k = "num" /\ actual.n < expected.n * actual.d
            \/ /\ expected.k = "str"
               /\ NumberOfString(expected.s) >= 0
               /\ actual.n < NumberOfString(expected.s) * actual.d
      [] operator = "contains" ->
            Includes(StringOfActual(actual), StringOfExpected(expected))
      [] operator = "between" ->
            /\ expected.k = "range"
            /\ actual.n > expected.min * actual.d
            /\ actual.n < expected.max * actual.d
      [] OTHER -> FALSE

compareValues(actual, operator, expected) ==
    CASE operator = "equals" ->
            expected.k = "num" /\ actual.n = expected.n * actual.d
      [] operator = "greater_than" ->
            \/ expected.k = "num" /\ actual.n > expected.n * actual.d
            \/ /\ expected.k = "str"
               /\ NumberOfString(expected.s) >= 0
               /\ actual.n > NumberOfString(expected.s) * actual.d
      [] operator = "less_than" ->
            \/ expected.k = "num" /\ actual.n < expected.n * actual.d
            \/ /\ expected.k = "str"
               /\ NumberOfString(expected.s) >= 0
               /\ actual.n < NumberOfString(expected.s) * actual.d
      [] operator = "contains" ->
            Includes(StringOfActual(actual), StringOfExpected(expected))
      [] operator = "between" ->
            /\ expected.k = "range"
            /\ actual.n >= expected.min * actual.d
            /\ actual.n <= expected.max * actual.d
      [] OTHER -> FALSE

\* an evaluator that asks whether any record of the platform or the member
\* is in the window, whatever the operator
evaluateConditionAnyRecord(condition, contributions, t) ==
    /\ condition.value.k = "str"
    /\ \E j \in 1..Len(contributions) :
          \/ /\ condition.field = "platform_usage"
             /\ contributions[j].platform = condition.value.s
          \/ /\ condition.field = "member_activity"
             /\ contributions[j].memberId = condition.value.s

\* evaluateCondition once the activity read has returned `contributions`
evaluateCondition(condition, contributions, t) ==
    LET total == SumAmounts(contributions)
        count == Len(contributions)
        cmp(actual) == compareValues(actual, condition.operator, condition.value)
    IN CASE condition.field = "total_amount" -> cmp(Rat(total, 1))
         [] condition.field = "contribution_count" -> cmp(Rat(count, 1))
         [] condition.field = "average_amount" ->
               cmp(IF count > 0 THEN Rat(total, count) ELSE Rat(0, 1))
         [] condition.field = "unique_contributors" ->
               cmp(Rat(Cardinality({contributions[j].memberId : j \in 1..count}), 1))
         [] condition.field = "platform_usage" ->
               cmp(Rat(Cardinality({j \in 1..count :
                        /\ condition.value.k = "str"
                        /\ contributions[j].platform = condition.value.s}), 1))
         [] condition.field = "member_activity" ->
               cmp(Rat(Cardinality({j \in 1..count :
                        /\ condition.value.k = "str"
                        /\ contributions[j].memberId = condition.value.s}), 1))
         [] condition.field = "time_since_last" ->
               IF count = 0 THEN TRUE
               ELSE cmp(Rat(t - contributions[1].date, MsPerSec * SecPerMin * SecPerMin))
         [] OTHER -> FALSE

(* ------------------------------- inputs -------------------------------- *)
Contribution(a, m, p) == [amount |-> a, memberId |-> m, platform |-> p, date |-> 0]

\* the activity windows the data source may return
Windows == { <<>>,
             <<Contribution(5, "m1", "mpesa"), Contribution(20, "m2", "cash")>> }

CondCount == [field |-> "contribution_count", operator |-> "greater_than",
              value |-> NumV(0)]
CondTotal == [field |-> "total_amount", operator |-> "between",
              value |-> RangeV(10, 25)]

ActWebhook == [type |-> "webhook", template |-> "t1"]
ActPush == [type |-> "push", template |-> "t2"]

RuleInput(e, cs, as, cd) ==
    [name |-> "r", enabled |-> e, conditions |-> cs, actions |-> as, cooldown |-> cd]

\* the rules createAlertRule is called with (cooldown 0: no cooldown)
RuleInputs == { RuleInput(TRUE, <<>>, <<ActWebhook, ActPush>>, 1),
                RuleInput(TRUE, <<CondCount, CondTotal>>, <<ActPush>>, 1),
                RuleInput(FALSE, <<CondCount>>, <<>>, 0) }

\* the partial rules updateAlertRule is called with
UpdateInputs == { [enabled |-> FALSE], [enabled |-> TRUE] }

(* ---------------------------- rule monitor ----------------------------- *)
Objs == DOMAIN heap
StoreIds == {heap[alertRules[j]].id : j \in 1..Len(alertRules)}

\* JSON.stringify(this.alertRules) with the rule objects as they are in h
Snapshot(store, h) == [j \in 1..Len(store) |-> h[store[j]]]

\* the two processAlertRules invocations that may be in flight
Ticks == {1, 2}

IdleTick == [pc |-> "idle", store0 |-> <<>>, rules |-> <<>>, i |-> 0, ci |-> 0,
             ai |-> 0, pend |-> <<>>, log |-> <<>>, first |-> FALSE]

\* no cooldown holds the rule back at instant t: it never fired (last = 0), it
\* has no cooldown, or at least `cooldown` minutes have passed since `last`
Eligible(rule, last, t) ==
    last = 0 \/ rule.cooldown = 0 \/ t - last >= rule.cooldown * MsPerMinute

\* the rule object has no cooldown, or it fired before (ownLast) and at least
\* `cooldown` minutes have passed since it did
ReArmedAt(rule, ownLast, t) ==
    rule.cooldown = 0 \/ (ownLast # 0 /\ t - ownLast >= rule.cooldown * MsPerMinute)

\* history of one rule's evaluation within a tick
LogEntry(eligible, armed) ==
    [eligible |-> eligible, armed |-> armed, evals |-> <<>>, outcome |-> "pending",
     acts |-> <<>>]

\* what a segment of a tick may change
World(t) == [t |-> t, aa |-> activeAlerts, h |-> heap, f |-> fires, fd |-> firedDeleted]

\* shouldTriggerRule, the cooldown check (and the check with <= for <)
CooldownActiveInclusive(rule, aa, t) ==
    /\ rule.id \in DOMAIN aa
    /\ aa[rule.id] # 0
    /\ rule.cooldown # 0
    /\ t - aa[rule.id] <= rule.cooldown * SecPerMin * MsPerSec

\* (and the check with > for <)
CooldownActiveFlipped(rule, aa, t) ==
    /\ rule.id \in DOMAIN aa
    /\ aa[rule.id] # 0
    /\ rule.cooldown # 0
    /\ t - aa[rule.id] > rule.cooldown * SecPerMin * MsPerSec

CooldownActive(rule, aa, t) ==
    /\ rule.id \in DOMAIN aa
    /\ aa[rule.id] # 0
    /\ rule.cooldown # 0
    /\ t - aa[rule.id] < rule.cooldown * SecPerMin * MsPerSec

\* shouldTriggerRule: a condition that evaluated to `res` ends the loop with
\* false (and the loop without that return)
ConditionFailsNever(res) == FALSE

ConditionFails(res) == ~res

\* the rule at position i is finished with `outcome`; on to the next one
EndRule(w, outcome) ==
    [w EXCEPT !.t.log[Len(w.t.log)].outcome = outcome,
              !.t.i = @ + 1, !.t.ci = 0, !.t.ai = 0, !.t.pend = <<>>]

\* (triggerRule with the record made after the action loop instead)
triggerRuleDispatchFirst(w) ==
    LET o == w.t.rules[w.t.i]
    IN [t  |-> [w.t EXCEPT !.pc = "saving",
                           !.pend = Snapshot(alertRules, w.h),
                           !.log[Len(w.t.log)].outcome = "fired"],
        aa |-> w.aa,
        h  |-> w.h,
        f  |-> [w.f EXCEPT ![o] = Last2(Append(@, clock))],
        fd |-> IF o \in deletedObjs THEN w.fd \cup {o} ELSE w.fd]

\* triggerRule up to its await on saveAlertRules
triggerRule(w) ==
    LET o == w.t.rules[w.t.i]
        h1 == [w.h EXCEPT ![o].lastTriggered = clock]
    IN [t  |-> [w.t EXCEPT !.pc = "saving",
                           !.pend = Snapshot(alertRules, h1),
                           !.log[Len(w.t.log)].outcome = "fired"],
        aa |-> MapSet(w.aa, w.h[o].id, clock),
        h  |-> h1,
        f  |-> [w.f EXCEPT ![o] = Last2(Append(@, clock))],
        fd |-> IF o \in deletedObjs THEN w.fd \cup {o} ELSE w.fd]

\* processAlertRules: the loop from rule i on, up to the next await on I/O
RECURSIVE BeginRules(_)
BeginRules(w) ==
    IF w.t.i > Len(w.t.rules) THEN [w EXCEPT !.t.pc = "done"]
    ELSE LET rule == w.h[w.t.rules[w.t.i]]
             last == IF rule.id \in DOMAIN w.aa THEN w.aa[rule.id] ELSE 0
             own == w.f[w.t.rules[w.t.i]]
             ownLast == IF own = <<>> THEN 0 ELSE own[Len(own)]
             w1 == [w EXCEPT !.t.log = Append(@, LogEntry(Eligible(rule, last, clock),
                                                          ReArmedAt(rule, ownLast, clock)))]
         IN IF CooldownActive(rule, w.aa, clock)
              THEN BeginRules(EndRule(w1, "suppressed"))
            ELSE IF rule.conditions = <<>> THEN triggerRule(w1)
            ELSE [w1 EXCEPT !.t.pc = "read", !.t.ci = 1]

\* processAlertRules: the catch around one rule (and the loop without it)
AbortTick(w, outcome) ==
    [w EXCEPT !.t.pc = "raised", !.t.log[Len(w.t.log)].outcome = outcome]

CatchRuleError(w, outcome) == BeginRules(EndRule(w, outcome))

\* triggerRule: the catch around one action (and the loop without it)
AbortActions(w) == CatchRuleError(w, "fired")

CatchActionError(w) ==
    IF w.t.ai < Len(w.h[w.t.rules[w.t.i]].actions)
    THEN [w EXCEPT !.t.ai = @ + 1]
    ELSE BeginRules(EndRule(w, "fired"))

Commit(k, w) ==
    /\ ticks' = [ticks EXCEPT ![k] = w.t]
    /\ activeAlerts' = w.aa
    /\ heap' = w.h
    /\ fires' = w.f
    /\ firedDeleted' = w.fd

\* processAlertRules: the pool of a tick (and the pool without the filter)
enabledRulesAll(store, h) == store

enabledRules(store, h) == SelectSeq(store, LAMBDA o : h[o].enabled)

\* setInterval callback / the immediate call of startRuleMonitoring
TickStart(k) ==
    /\ runs < MaxTickRuns
    /\ ticks[k].pc = "idle"
    /\ \A j \in Ticks : j < k => ticks[j].pc # "idle"
    /\ runs' = runs + 1
    /\ LET t0 == [IdleTick EXCEPT
                    !.pc = "run", !.store0 = alertRules, !.i = 1,
                    !.rules = enabledRules(alertRules, heap)]
       IN Commit(k, BeginRules(World(t0)))
    /\ UNCHANGED <<edits, clock, alertRules, storedRules, op, deletedObjs, switchedOff,
                   sideVars>>

\* the activity read of evaluateCondition returns or rejects
ReadDone(k) ==
    /\ ticks[k].pc = "read"
    /\ \E ok \in BOOLEAN, contributions \in Windows :
         LET t == ticks[k]
             rule == heap[t.rules[t.i]]
             res == evaluateCondition(rule.conditions[t.ci], contributions, clock)
             w1 == [World(t) EXCEPT !.t.log[Len(t.log)].evals = Append(@, res)]
         IN Commit(k, IF ~ok THEN CatchRuleError(World(t), "evalerror")
                      ELSE IF ConditionFails(res)
                        THEN BeginRules(EndRule(w1, "condfalse"))
                      ELSE IF t.ci < Len(rule.conditions)
                        THEN [w1 EXCEPT !.t.ci = @ + 1]
                      ELSE triggerRule(w1))
    /\ UNCHANGED <<edits, clock, alertRules, storedRules, runs, op, deletedObjs,
                   switchedOff, sideVars>>

\* the saveAlertRules of triggerRule resolves (ok) or rejects
SaveSettled(k, ok) ==
    /\ ticks[k].pc = "saving"
    /\ LET t == ticks[k]
           rule == heap[t.rules[t.i]]
       IN /\ storedRules' = IF ok THEN t.pend ELSE storedRules
          /\ Commit(k, IF ~ok THEN CatchRuleError(World(t), "savefail")
                       ELSE IF rule.actions = <<>>
                         THEN BeginRules(EndRule(World(t), "fired"))
                       ELSE [World(t) EXCEPT !.t.pc = "send", !.t.ai = 1,
                                             !.t.pend = <<>>])
    /\ UNCHANGED <<edits, clock, alertRules, runs, op, deletedObjs, switchedOff, sideVars>>

SaveDone(k) == \E ok \in BOOLEAN : SaveSettled(k, ok)

\* executeAction (render, then send on the channel) returns or throws
SendDone(k) ==
    /\ ticks[k].pc = "send"
    /\ \E ok \in BOOLEAN :
         LET t == ticks[k]
             w1 == [World(t) EXCEPT !.t.log[Len(t.log)].acts =
                                        Append(@, [idx |-> t.ai, ok |-> ok])]
         IN Commit(k, IF ok
                      THEN IF t.ai < Len(heap[t.rules[t.i]].actions)
                           THEN [w1 EXCEPT !.t.ai = @ + 1]
                           ELSE BeginRules(EndRule(w1, "fired"))
                      ELSE CatchActionError(w1))
    /\ UNCHANGED <<edits, clock, alertRules, storedRules, runs, op, deletedObjs,
                   switchedOff, sideVars>>

\* processAlertRules has returned: the timer callback that awaited it ends
TickEnd(k) ==
    /\ ticks[k].pc = "done"
    /\ ticks' = [ticks EXCEPT ![k] = IdleTick]
    /\ UNCHANGED <<edits, clock, heap, alertRules, activeAlerts, storedRules, runs, op,
                   fires, deletedObjs, firedDeleted, switchedOff, sideVars>>

(* ------------------------------ rule CRUD ------------------------------ *)
IdleOp == [pc |-> "idle"]

\* createAlertRule up to its await on saveAlertRules
CreateStart(rule) ==
    /\ op.pc = "idle"
    /\ Cardinality(Objs) - edits < MaxCreates
    /\ LET o == Cardinality(Objs) + 1
           newRule == [id |-> clock, name |-> rule.name, enabled |-> rule.enabled,
                       conditions |-> rule.conditions, actions |-> rule.actions,
                       cooldown |-> rule.cooldown, lastTriggered |-> 0]
           h1 == [x \in Objs \cup {o} |-> IF x = o THEN newRule ELSE heap[x]]
       IN /\ heap' = h1
          /\ alertRules' = Append(alertRules, o)
          /\ fires' = [x \in Objs \cup {o} |-> IF x = o THEN <<>> ELSE fires[x]]
          /\ op' = [pc |-> "create", id |-> clock,
                    pend |-> Snapshot(Append(alertRules, o), h1)]
    /\ switchedOff' = switchedOff \ {clock}
    /\ UNCHANGED <<edits, clock, activeAlerts, storedRules, ticks, runs, deletedObjs,
                   firedDeleted, sideVars>>

\* createAlertRule after the save resolved (ok) or rejected: activateRule
\* only logs
CreateSettled(ok) ==
    /\ op.pc = "create"
    /\ storedRules' = IF ok THEN op.pend ELSE storedRules
    /\ op' = IdleOp
    /\ UNCHANGED <<edits, clock, heap, alertRules, activeAlerts, ticks, runs, fires,
                   deletedObjs, firedDeleted, switchedOff, sideVars>>

CreateDone == \E ok \in BOOLEAN : CreateSettled(ok)

\* updateAlertRule up to its await on saveAlertRules
UpdateStart(id, updates) ==
    /\ op.pc = "idle"
    /\ edits < MaxUpdates
    /\ edits' = edits + 1
    /\ \E index \in 1..Len(alertRules) :
         /\ heap[alertRules[index]].id = id
         /\ \A j \in 1..(index - 1) : heap[alertRules[j]].id # id
         /\ LET o == Cardinality(Objs) + 1
                old == heap[alertRules[index]]
                h1 == [x \in Objs \cup {o} |->
                         IF x = o THEN Spread(old, updates) ELSE heap[x]]
                store1 == [alertRules EXCEPT ![index] = o]
            IN /\ heap' = h1
               /\ alertRules' = store1
               /\ fires' = [x \in Objs \cup {o} |-> IF x = o THEN <<>> ELSE fires[x]]
               /\ op' = [pc |-> "update", id |-> id, index |-> index,
                         wasEnabled |-> old.enabled,
                         pend |-> Snapshot(store1, h1)]
    /\ switchedOff' = switchedOff \ {id}
    /\ UNCHANGED <<clock, activeAlerts, storedRules, ticks, runs, deletedObjs,
                   firedDeleted, sideVars>>

\* deactivateRule
deactivateRule(aa, ruleId) == MapDelete(aa, ruleId)

\* updateAlertRule after the save resolved (ok) or rejected: the
\* enable/disable transition
UpdateSettled(ok) ==
    /\ op.pc = "update"
    /\ LET isEnabled == heap[alertRules[op.index]].enabled
           off == ok /\ op.wasEnabled /\ ~isEnabled
       IN /\ storedRules' = IF ok THEN op.pend ELSE storedRules
          /\ activeAlerts' = IF off THEN deactivateRule(activeAlerts, op.id)
                             ELSE activeAlerts
          /\ switchedOff' = IF off THEN switchedOff \cup {op.id} ELSE switchedOff
    /\ op' = IdleOp
    /\ UNCHANGED <<edits, clock, heap, alertRules, ticks, runs, fires, deletedObjs,
                   firedDeleted, sideVars>>

UpdateDone == \E ok \in BOOLEAN : UpdateSettled(ok)

\* deleteAlertRule up to its await on saveAlertRules
DeleteStart(id) ==
    /\ op.pc = "idle"
    /\ LET store1 == SelectSeq(alertRules, LAMBDA o : heap[o].id # id)
       IN /\ activeAlerts' = deactivateRule(activeAlerts, id)
          /\ alertRules' = store1
          /\ op' = [pc |-> "delete", id |-> id,
                    removed |-> Range(alertRules) \ Range(store1),
                    pend |-> Snapshot(store1, heap)]
    /\ switchedOff' = switchedOff \ {id}
    /\ UNCHANGED <<edits, clock, heap, storedRules, ticks, runs, fires, deletedObjs,
                   firedDeleted, sideVars>>

\* deleteAlertRule after the save resolved (ok) or rejected
DeleteSettled(ok) ==
    /\ op.pc = "delete"
    /\ storedRules' = IF ok THEN op.pend ELSE storedRules
    /\ deletedObjs' = IF ok THEN deletedObjs \cup op.removed ELSE deletedObjs
    /\ op' = IdleOp
    /\ UNCHANGED <<edits, clock, heap, alertRules, activeAlerts, ticks, runs, fires,
                   firedDeleted, switchedOff, sideVars>>

DeleteDone == \E ok \in BOOLEAN : DeleteSettled(ok)

\* the record of a testRule call that has settled
Tested(ruleId, o, result, eligible, evals) ==
    [pc |-> "tested", id |-> ruleId, o |-> o, result |-> result,
     eligible |-> eligible, evals |-> evals]

\* a testRule that records a trigger for the rule it finds, as a tick would
testRuleTriggering(ruleId) ==
    /\ op.pc = "idle"
    /\ ruleId \in StoreIds
    /\ op' = Tested(ruleId, CHOOSE o \in Range(alertRules) : heap[o].id = ruleId,
                    "true", TRUE, <<>>)
    /\ activeAlerts' = MapSet(activeAlerts, ruleId, clock)
    /\ UNCHANGED <<edits, clock, heap, alertRules, storedRules, ticks, runs,
                   fires, deletedObjs, firedDeleted, switchedOff, sideVars>>

\* testRule: find, then shouldTriggerRule up to its first await on the
\* activity read; an absent id throws
testRule(ruleId) ==
    /\ op.pc = "idle"
    /\ IF ruleId \notin StoreIds
       THEN op' = Tested(ruleId, 0, "rejected", FALSE, <<>>)
       ELSE LET index == CHOOSE j \in 1..Len(alertRules) :
                            /\ heap[alertRules[j]].id = ruleId
                            /\ \A x \in 1..(j - 1) : heap[alertRules[x]].id # ruleId
                o == alertRules[index]
                rule == heap[o]
                last == IF ruleId \in DOMAIN activeAlerts THEN activeAlerts[ruleId] ELSE 0
                eligible == Eligible(rule, last, clock)
            IN op' = IF CooldownActive(rule, activeAlerts, clock)
                       THEN Tested(ruleId, o, "false", eligible, <<>>)
                     ELSE IF rule.conditions = <<>>
                       THEN Tested(ruleId, o, "true", eligible, <<>>)
                     ELSE [pc |-> "test", id |-> ruleId, o |-> o, ci |-> 1,
                           eligible |-> eligible, evals |-> <<>>]
    /\ UNCHANGED <<edits, clock, heap, alertRules, activeAlerts, storedRules, ticks, runs,
                   fires, deletedObjs, firedDeleted, switchedOff, sideVars>>

\* testRule: the activity read of evaluateCondition returns or rejects
TestReadDone ==
    /\ op.pc = "test"
    /\ \E ok \in BOOLEAN, contributions \in Windows :
         LET rule == heap[op.o]
             res == evaluateCondition(rule.conditions[op.ci], contributions, clock)
             evals == Append(op.evals, res)
         IN op' = IF ~ok THEN Tested(op.id, op.o, "rejected", op.eligible, op.evals)
                  ELSE IF ConditionFails(res)
                    THEN Tested(op.id, op.o, "false", op.eligible, evals)
                  ELSE IF op.ci < Len(rule.conditions)
                    THEN [op EXCEPT !.ci = @ + 1, !.evals = evals]
                  ELSE Tested(op.id, op.o, "true", op.eligible, evals)
    /\ UNCHANGED <<edits, clock, heap, alertRules, activeAlerts, storedRules, ticks, runs,
                   fires, deletedObjs, firedDeleted, switchedOff, sideVars>>

\* the caller has the result of testRule
TestReturn ==
    /\ op.pc = "tested"
    /\ op' = IdleOp
    /\ UNCHANGED <<edits, clock, heap, alertRules, activeAlerts, storedRules, ticks, runs,
                   fires, deletedObjs, firedDeleted, switchedOff, sideVars>>

(* ----------------------------- environment ----------------------------- *)
\* time passes
Advance ==
    /\ clock < StepMs * (MaxAdvance + 1)
    /\ clock' = clock + StepMs
    /\ UNCHANGED <<edits, heap, alertRules, activeAlerts, storedRules, ticks, runs, op,
                   fires, deletedObjs, firedDeleted, switchedOff, sideVars>>

(* ------------------------- schedule calculator ------------------------- *)
\* a Date in local time, in a zone without daylight saving: year, month
\* (0 = January), day of the month, minute of the day
DateOf(y, m, d, mi) == [y |-> y, m |-> m, d |-> d, min |-> mi]

NoDate == [y |-> 0, m |-> 0, d |-> 0, min |-> 0]

IsLeap(y) == (y % 4 = 0 /\ y % 100 # 0) \/ y % 400 = 0

DaysInMonth(y, m) ==
    CASE m = 1 -> IF IsLeap(y) THEN 29 ELSE 28
      [] m \in {3, 5, 8, 10} -> 30
      [] OTHER -> 31

\* Date's MakeDay: a month past December carries into the year, a day past
\* the end of the month carries into the months after it
RECURSIVE MakeDay(_, _, _)
MakeDay(y, m, d) ==
    IF m > 11 THEN MakeDay(y + 1, m - 12, d)
    ELSE IF d > DaysInMonth(y, m) THEN MakeDay(y, m + 1, d - DaysInMonth(y, m))
    ELSE [y |-> y, m |-> m, d |-> d]

\* days from 1 January 2026 (a Thursday) to the date
RECURSIVE DaysBeforeYear(_)
DaysBeforeYear(y) ==
    IF y <= 2026 THEN 0
    ELSE DaysBeforeYear(y - 1) + (IF IsLeap(y - 1) THEN 366 ELSE 365)

RECURSIVE DaysBeforeMonth(_, _)
DaysBeforeMonth(y, m) ==
    IF m = 0 THEN 0 ELSE DaysBeforeMonth(y, m - 1) + DaysInMonth(y, m - 1)

DayNumber(date) == DaysBeforeYear(date.y) + DaysBeforeMonth(date.y, date.m) + date.d - 1

\* Date.prototype.getTime, in minutes; it orders the Dates that <= compares
getTime(date) == DayNumber(date) * (24 * 60) + date.min

\* Date.prototype.getDay: 0 = Sunday .. 6 = Saturday
getDay(date) == (DayNumber(date) + 4) % 7

\* Date.prototype.setHours(hours, minutes, 0, 0)
setHours(date, hours, minutes) ==
    LET mins == hours * 60 + minutes
        r == MakeDay(date.y, date.m, date.d + mins \div (24 * 60))
    IN DateOf(r.y, r.m, r.d, mins % (24 * 60))

\* Date.prototype.setDate(d)
setDate(date, d) ==
    LET r == MakeDay(date.y, date.m, d) IN DateOf(r.y, r.m, r.d, date.min)

\* Date.prototype.setMonth(m, d)
setMonth(date, m, d) ==
    LET r == MakeDay(date.y, m, d) IN DateOf(r.y, r.m, r.d, date.min)

\* a string is held as the sequence of its characters
DigitOf(c) ==
    CASE c = "0" -> 0 [] c = "1" -> 1 [] c = "2" -> 2 [] c = "3" -> 3
      [] c = "4" -> 4 [] c = "5" -> 5 [] c = "6" -> 6 [] c = "7" -> 7
      [] c = "8" -> 8 [] c = "9" -> 9 [] OTHER -> -1

\* String.prototype.split with a one-character separator
RECURSIVE Split(_, _)
Split(s, sep) ==
    IF \A j \in 1..Len(s) : s[j] # sep THEN <<s>>
    ELSE LET j == CHOOSE x \in 1..Len(s) :
                      s[x] = sep /\ \A z \in 1..(x - 1) : s[z] # sep
         IN <<SubSeq(s, 1, j - 1)>> \o Split(SubSeq(s, j + 1, Len(s)), sep)

\* Number(string) for a string of decimal digits; -1 stands for NaN
RECURSIVE NumberOfChars(_)
NumberOfChars(s) ==
    IF s = <<>> THEN 0
    ELSE LET front == NumberOfChars(SubSeq(s, 1, Len(s) - 1))
             digit == DigitOf(s[Len(s)])
         IN IF front < 0 \/ digit < 0 THEN -1 ELSE front * 10 + digit

\* schedule.days.find(day => day > current) || schedule.days[0]
FindAfter(days, current) ==
    LET later == SelectSeq(days, LAMBDA day : day > current)
    IN IF later # <<>> THEN Head(later) ELSE days[1]

\* nextDate <= now (and the comparison with < for <=)
SlotPassedStrictly(nextD, nowD) == getTime(nextD) < getTime(nowD)

SlotPassed(nextD, nowD) == getTime(nextD) <= getTime(nowD)

calculateNextSchedule(sched, nowD) ==
    LET parts == Split(sched.time, ":")
        hours == NumberOfChars(parts[1])
        minutes == NumberOfChars(parts[2])
        next0 == setHours(nowD, hours, minutes)
        passed == SlotPassed(next0, nowD)
    IN CASE sched.type = "daily" ->
              IF passed THEN setDate(next0, next0.d + 1) ELSE next0
         [] sched.type = "weekly" /\ sched.days # <<>> ->
              LET currentDay == getDay(nowD)
                  nextDay == FindAfter(sched.days, currentDay)
              IN IF nextDay <= currentDay /\ passed
                   THEN setDate(next0, next0.d + (7 - currentDay + sched.days[1]))
                 ELSE IF nextDay > currentDay
                   THEN setDate(next0, next0.d + (nextDay - currentDay))
                 ELSE IF passed THEN setDate(next0, next0.d + 7)
                 ELSE next0
         [] sched.type = "monthly" /\ sched.days # <<>> ->
              LET currentDate == nowD.d
                  nextDay == FindAfter(sched.days, currentDate)
              IN IF nextDay <= currentDate /\ passed
                   THEN setMonth(next0, next0.m + 1, nextDay)
                 ELSE IF nextDay > currentDate THEN setDate(next0, nextDay)
                 ELSE IF passed THEN setMonth(next0, next0.m + 1, next0.d)
                 ELSE next0
         [] OTHER -> next0

\* the schedule times the model uses
Time0700 == <<"0", "7", ":", "0", "0">>
Time0930 == <<"0", "9", ":", "3", "0">>

ScheduleInput(type, days, time) == [type |-> type, days |-> days, time |-> time]

\* the ScheduleConfigs the calculator is called with (days in ascending order)
ScheduleInputs ==
    { ScheduleInput("daily", <<>>, Time0700),
      ScheduleInput("daily", <<>>, Time0930),
      ScheduleInput("weekly", <<1, 3, 5>>, Time0700),
      ScheduleInput("weekly", <<1>>, Time0700),
      ScheduleInput("weekly", <<0, 6>>, Time0930),
      ScheduleInput("monthly", <<10, 20>>, Time0700),
      ScheduleInput("monthly", <<31>>, Time0930),
      ScheduleInput("monthly", <<1>>, Time0700) }

\* the instants the calculator is called at: the week of Monday 26 January
\* 2026 (with the end of January), days of February, the end of the year and
\* a leap day, each at 06:00, 07:00, 08:00 and 10:00
NowInputs ==
    { DateOf(ymd[1], ymd[2], ymd[3], h * 60) :
        ymd \in { <<2026, 0, 26>>, <<2026, 0, 27>>, <<2026, 0, 28>>, <<2026, 0, 29>>,
                  <<2026, 0, 30>>, <<2026, 0, 31>>, <<2026, 1, 1>>, <<2026, 1, 10>>,
                  <<2026, 1, 28>>, <<2026, 11, 31>>, <<2028, 1, 29>> },
        h \in {6, 7, 8, 10} }

\* a caller (createScheduledNotification, rescheduling) computes the next fire time
Calculate ==
    /\ nextDate = NoDate
    /\ nextDate' = calculateNextSchedule(schedule, now)
    /\ UNCHANGED <<now, schedule, monVars, storeVars, evalVars>>

(* ------------------ templates and scheduled notifications -------------- *)
IdleCall == [pc |-> "idle"]

\* Date.prototype.toISOString, and new Date(text) back: the text names the
\* instant, here the minute count of the date
toISOString(d) == getTime(d)

\* the ids of a store's entries
IdsOf(store) == {store[j].id : j \in 1..Len(store)}

\* Array.prototype.findIndex by id (0: not found)
findIndex(store, id) ==
    IF id \in IdsOf(store)
    THEN CHOOSE j \in 1..Len(store) :
            store[j].id = id /\ \A x \in 1..(j - 1) : store[x].id # id
    ELSE 0

\* Array.prototype.filter: the entries with another id
filterOut(store, id) == SelectSeq(store, LAMBDA e : e.id # id)

\* the identifier a scheduled notification is registered under
identifier(id) == <<"scheduled_", id>>

\* createTemplate up to its await on saveTemplates
createTemplate(template) ==
    /\ call.pc = "idle"
    /\ calls < MaxCalls
    /\ calls' = calls + 1
    /\ LET newTemplate == [id |-> getTime(now), name |-> template.name,
                           body |-> template.body]
       IN /\ templates' = Append(templates, newTemplate)
          /\ call' = [pc |-> "saveTemplates", kind |-> "create", id |-> newTemplate.id,
                      found |-> TRUE, pend |-> Append(templates, newTemplate)]
    /\ UNCHANGED <<monVars, schedVars, evalVars, storedTemplates, scheduledNotifications,
                   storedNotifications, registrations, sent, delivered, failed>>

\* updateTemplate up to its await on saveTemplates; an absent id throws
updateTemplate(id, updates) ==
    /\ call.pc = "idle"
    /\ calls < MaxCalls
    /\ calls' = calls + 1
    /\ LET index == findIndex(templates, id)
           store1 == [templates EXCEPT ![index] = Spread(templates[index], updates)]
       IN IF index = 0
          THEN UNCHANGED <<templates, call>>
          ELSE /\ templates' = store1
               /\ call' = [pc |-> "saveTemplates", kind |-> "update", id |-> id,
                           found |-> TRUE, pend |-> store1]
    /\ UNCHANGED <<monVars, schedVars, evalVars, storedTemplates, scheduledNotifications,
                   storedNotifications, registrations, sent, delivered, failed>>

\* deleteTemplate up to its await on saveTemplates
deleteTemplate(id) ==
    /\ call.pc = "idle"
    /\ calls < MaxCalls
    /\ calls' = calls + 1
    /\ templates' = filterOut(templates, id)
    /\ call' = [pc |-> "saveTemplates", kind |-> "delete", id |-> id,
                found |-> id \in IdsOf(templates), pend |-> filterOut(templates, id)]
    /\ UNCHANGED <<monVars, schedVars, evalVars, storedTemplates, scheduledNotifications,
                   storedNotifications, registrations, sent, delivered, failed>>

\* saveTemplates resolves or rejects, and the call returns
saveTemplates ==
    /\ call.pc = "saveTemplates"
    /\ \E ok \in BOOLEAN :
         /\ storedTemplates' = IF ok THEN call.pend ELSE storedTemplates
         /\ failed' = (failed \/ ~ok)
    /\ call' = IdleCall
    /\ UNCHANGED <<monVars, schedVars, evalVars, templates, scheduledNotifications,
                   storedNotifications, registrations, sent, delivered, calls>>

\* createScheduledNotification up to its await on saveScheduledNotifications
createScheduledNotification(notification) ==
    /\ call.pc = "idle"
    /\ calls < MaxCalls
    /\ calls' = calls + 1
    /\ LET nextScheduled == calculateNextSchedule(notification.schedule, now)
           newNotification == [id |-> getTime(now),
                               schedule |-> notification.schedule,
                               template |-> notification.template,
                               enabled |-> notification.enabled,
                               nextScheduled |-> toISOString(nextScheduled)]
           store1 == Append(scheduledNotifications, newNotification)
       IN /\ scheduledNotifications' = store1
          /\ call' = [pc |-> "saveNotifications", kind |-> "create",
                      id |-> newNotification.id, found |-> TRUE, pend |-> store1,
                      target |-> newNotification, wasEnabled |-> FALSE]
    /\ UNCHANGED <<monVars, schedVars, evalVars, templates, storedTemplates,
                   storedNotifications, registrations, sent, delivered, failed>>

\* updateScheduledNotification up to its await on saveScheduledNotifications;
\* an absent id throws
updateScheduledNotification(id, updates) ==
    /\ call.pc = "idle"
    /\ calls < MaxCalls
    /\ calls' = calls + 1
    /\ LET index == findIndex(scheduledNotifications, id)
           old == scheduledNotifications[index]
           merged == Spread(old, updates)
           updated == IF "schedule" \in DOMAIN updates
                      THEN [merged EXCEPT !.nextScheduled =
                              toISOString(calculateNextSchedule(merged.schedule, now))]
                      ELSE merged
           store1 == [scheduledNotifications EXCEPT ![index] = updated]
       IN IF index = 0
          THEN UNCHANGED <<scheduledNotifications, call>>
          ELSE /\ scheduledNotifications' = store1
               /\ call' = [pc |-> "saveNotifications", kind |-> "update", id |-> id,
                           found |-> TRUE, pend |-> store1, target |-> updated,
                           wasEnabled |-> old.enabled]
    /\ UNCHANGED <<monVars, schedVars, evalVars, templates, storedTemplates,
                   storedNotifications, registrations, sent, delivered, failed>>

\* deleteScheduledNotification up to its await on cancelScheduledNotification
deleteScheduledNotification(id) ==
    /\ call.pc = "idle"
    /\ calls < MaxCalls
    /\ calls' = calls + 1
    /\ call' = [pc |-> "cancel", kind |-> "delete", id |-> id,
                found |-> id \in IdsOf(scheduledNotifications)]
    /\ UNCHANGED <<monVars, schedVars, evalVars, templates, storedTemplates,
                   scheduledNotifications, storedNotifications, registrations, sent,
                   delivered, failed>>

\* saveScheduledNotifications resolves or rejects; the caller goes on to the
\* platform scheduler or returns
saveScheduledNotifications ==
    /\ call.pc = "saveNotifications"
    /\ \E ok \in BOOLEAN :
         /\ storedNotifications' = IF ok THEN call.pend ELSE storedNotifications
         /\ failed' = (failed \/ ~ok)
         /\ call' =
              IF ~ok \/ call.kind = "delete" THEN IdleCall
              ELSE IF call.kind = "create"
                THEN IF call.target.enabled THEN [call EXCEPT !.pc = "schedule"]
                     ELSE IdleCall
              ELSE IF call.wasEnabled /\ ~call.target.enabled
                THEN [call EXCEPT !.pc = "cancel"]
              ELSE IF ~call.wasEnabled /\ call.target.enabled
                THEN [call EXCEPT !.pc = "schedule"]
              ELSE IdleCall
    /\ UNCHANGED <<monVars, schedVars, evalVars, templates, storedTemplates,
                   scheduledNotifications, registrations, sent, delivered, calls>>

\* scheduleNotification: scheduleNotificationAsync resolves or rejects
scheduleNotification ==
    /\ call.pc = "schedule"
    /\ \E ok \in BOOLEAN :
         /\ registrations' =
              IF ok THEN MapSet(registrations, identifier(call.target.id),
                                call.target.nextScheduled)
              ELSE registrations
         /\ failed' = (failed \/ ~ok)
    /\ call' = IdleCall
    /\ UNCHANGED <<monVars, schedVars, evalVars, templates, storedTemplates,
                   scheduledNotifications, storedNotifications, sent, delivered, calls>>

\* cancelScheduledNotification: cancelScheduledNotificationAsync resolves or
\* rejects; deleteScheduledNotification then filters the store and saves it
cancelScheduledNotification ==
    /\ call.pc = "cancel"
    /\ \E ok \in BOOLEAN :
         /\ registrations' = IF ok THEN MapDelete(registrations, identifier(call.id))
                             ELSE registrations
         /\ failed' = (failed \/ ~ok)
         /\ IF ok /\ call.kind = "delete"
            THEN /\ scheduledNotifications' = filterOut(scheduledNotifications, call.id)
                 /\ call' = [pc |-> "saveNotifications", kind |-> "delete",
                             id |-> call.id, found |-> call.found,
                             pend |-> filterOut(scheduledNotifications, call.id)]
            ELSE /\ call' = IdleCall
                 /\ UNCHANGED scheduledNotifications
    /\ UNCHANGED <<monVars, schedVars, evalVars, templates, storedTemplates,
                   storedNotifications, sent, delivered, calls>>

\* the instant the service is started at: Monday 26 January 2026, 06:00
StartDate == DateOf(2026, 0, 26, 6 * 60)

\* the wall clock moves on, two hours at a time
PassTime ==
    /\ getTime(now) < getTime(StartDate) + MaxPassTime * (2 * 60)
    /\ now' = [now EXCEPT !.min = @ + 2 * 60]
    /\ UNCHANGED <<monVars, schedule, nextDate, storeVars, evalVars>>

\* the platform scheduler: a registration whose trigger date is reached fires,
\* once, and is gone
Fire(ident) ==
    /\ ident \in DOMAIN registrations
    /\ registrations[ident] <= getTime(now)
    /\ registrations' = MapDelete(registrations, ident)
    /\ delivered' = delivered \cup {ident}
    /\ UNCHANGED <<monVars, schedVars, evalVars, templates, storedTemplates,
                   scheduledNotifications, storedNotifications, call, sent, calls, failed>>

(* -------------------------- template rendering ------------------------- *)
\* A text is a sequence of pieces: "$" and "&" on their own, a whole
\* "{placeholder}", or a run of other characters.

\* Number.prototype.toFixed(2) of the rational n/d, rounded half up
toFixed(n, d) ==
    LET hundredths == (2 * n * 100 + d) \div (2 * d)
        frac == hundredths % 100
    IN <<ToString(hundredths \div 100), ".",
         ToString(frac \div 10), ToString(frac % 10)>>

\* the replacement text of String.prototype.replace for one match: $$ gives a
\* dollar sign and $& the matched text; a dollar sign before anything else
\* (a digit where the pattern has no group, a letter, a blank) stands for itself
RECURSIVE GetSubstitution(_, _)
GetSubstitution(replacement, matched) ==
    IF replacement = <<>> THEN <<>>
    ELSE IF Len(replacement) >= 2 /\ replacement[1] = "$" /\ replacement[2] = "$"
      THEN <<"$">> \o GetSubstitution(SubSeq(replacement, 3, Len(replacement)), matched)
    ELSE IF Len(replacement) >= 2 /\ replacement[1] = "$" /\ replacement[2] = "&"
      THEN <<matched>> \o
           GetSubstitution(SubSeq(replacement, 3, Len(replacement)), matched)
    ELSE <<Head(replacement)>> \o GetSubstitution(Tail(replacement), matched)

\* message.replace(new RegExp(variable, 'g'), value): the pattern "{name}"
\* matches that text and nothing else
RECURSIVE replace(_, _, _)
replace(message, variable, value) ==
    IF message = <<>> THEN <<>>
    ELSE IF Head(message) = variable
      THEN GetSubstitution(value, variable) \o replace(Tail(message), variable, value)
    ELSE <<Head(message)>> \o replace(Tail(message), variable, value)

\* new Date().toLocaleString(): one piece, the same all through a rendering
toLocaleString(d) == <<"26/01/2026, 06:00:00">>

\* processTemplate: the `variables` object, in the order of its entries
Variables(rule, contributions) ==
    << <<"{rule_name}", rule.name>>,
       <<"{timestamp}", toLocaleString(now)>>,
       <<"{total_amount}", toFixed(SumAmounts(contributions), 1)>>,
       <<"{contribution_count}", <<ToString(Len(contributions))>> >>,
       <<"{unique_contributors}",
         <<ToString(Cardinality({contributions[j].memberId :
                                   j \in 1..Len(contributions)}))>> >>,
       <<"{latest_contribution}",
         IF Len(contributions) > 0
         THEN <<"$", ToString(contributions[1].amount), " from ">>
              \o contributions[1].memberName
         ELSE <<"None">> >> >>

\* processTemplate: the loop over Object.entries(variables)
RECURSIVE ReplaceEach(_, _)
ReplaceEach(message, variables) ==
    IF variables = <<>> THEN message
    ELSE ReplaceEach(replace(message, Head(variables)[1], Head(variables)[2]),
                     Tail(variables))

\* processTemplate (and the rendering that has no fallback for a template that
\* is not in the store)
processTemplateNoFallback(tpls, templateId, rule, contributions) ==
    LET index == findIndex(tpls, templateId)
    IN IF index = 0 THEN <<>>
       ELSE ReplaceEach(tpls[index].body, Variables(rule, contributions))

\* processTemplate once the activity read (made only when the template is
\* found) has returned `contributions`
processTemplate(tpls, templateId, rule, contributions) ==
    LET index == findIndex(tpls, templateId)
    IN IF index = 0 THEN <<"Alert triggered: ">> \o rule.name
       ELSE ReplaceEach(tpls[index].body, Variables(rule, contributions))

\* executeAction: whether the switch over action.type reaches a channel
Dispatches(action) ==
    \/ action.type \in {"whatsapp", "push"}
    \/ action.type = "webhook" /\ "webhookUrl" \in DOMAIN action

\* executeAction for action j of rule object o, as triggerRule calls it for a
\* rule that fired: render, then hand the message to the channel; a rejected
\* activity read throws before anything is sent
executeAction(o, j, readOk, contributions) ==
    /\ Len(sent) < MaxSends
    /\ LET rule == heap[o]
           action == rule.actions[j]
           absent == findIndex(templates, action.template) = 0
           dispatched == (absent \/ readOk) /\ Dispatches(action)
           message == processTemplate(templates, action.template, rule, contributions)
       IN sent' = Append(sent, [type |-> action.type, rule |-> o,
                                template |-> action.template,
                                dispatched |-> dispatched,
                                message |-> IF dispatched THEN message ELSE <<>>])
    /\ UNCHANGED <<monVars, schedVars, evalVars, templates, storedTemplates,
                   scheduledNotifications, storedNotifications, registrations, call,
                   delivered, calls, failed>>

(* ------------------------------- start-up ------------------------------ *)
\* the default templates of setupDefaultTemplates, in their order
DefaultTemplates ==
    << [name |-> "High Amount Alert",
        body |-> <<"HIGH AMOUNT ALERT Rule: ", "{rule_name}", " Time: ", "{timestamp}",
                   " Latest: ", "{latest_contribution}", " Total Today: ", "$",
                   "{total_amount}", " Contributions: ", "{contribution_count}">>],
       [name |-> "Daily Summary",
        body |-> <<"DAILY SUMMARY Total Amount: ", "$", "{total_amount}",
                   " Contributions: ", "{contribution_count}", " Unique Contributors: ",
                   "{unique_contributors}", " Generated: ", "{timestamp}">>],
       [name |-> "Inactivity Alert",
        body |-> <<"INACTIVITY ALERT No contributions received recently. ",
                   "Last contribution: ", "{latest_contribution}", " Time: ",
                   "{timestamp}">>],
       [name |-> "Goal Progress",
        body |-> <<"GOAL PROGRESS Current Total: ", "$", "{total_amount}",
                   " Contributions: ", "{contribution_count}", " Active Members: ",
                   "{unique_contributors}", " Updated: ", "{timestamp}">>] >>

\* JSON.parse of the stored document (nothing stored, or the read failed:
\* the field keeps its initial empty array)
Loaded(ok, stored) == IF ok THEN stored ELSE <<>>

\* (the cooldown map seeded from the lastTriggered of the loaded rules)
SeededAlerts(rules) ==
    [id \in {rules[x].id : x \in {y \in 1..Len(rules) : rules[y].lastTriggered # 0}} |->
        rules[CHOOSE x \in 1..Len(rules) :
                 rules[x].id = id /\ rules[x].lastTriggered # 0].lastTriggered]

\* the cooldown map of a new process: new Map(), which no load touches
FreshAlerts(rules) == <<>>

\* a new process: the field initialisers, then initialize up to its await on
\* the read of the rule document; what the old process had in flight is gone
initialize ==
    /\ call.pc \in {"idle", "fresh", "rejected"}
    /\ call' = [pc |-> "loadAlertRules"]
    /\ heap' = <<>>
    /\ alertRules' = <<>>
    /\ activeAlerts' = <<>>
    /\ fires' = <<>>
    /\ ticks' = [k \in Ticks |-> IdleTick]
    /\ op' = IdleOp
    /\ runs' = 0
    /\ edits' = 0
    /\ deletedObjs' = {}
    /\ firedDeleted' = {}
    /\ switchedOff' = {}
    /\ templates' = <<>>
    /\ scheduledNotifications' = <<>>
    /\ UNCHANGED <<clock, storedRules, schedVars, evalVars, storedTemplates,
                   storedNotifications, registrations, sent, delivered, calls, failed>>

\* loadAlertRules: the read returns the document or fails
loadAlertRules ==
    /\ call.pc = "loadAlertRules"
    /\ \E ok \in BOOLEAN :
         LET rules == Loaded(ok, storedRules)
         IN /\ heap' = [o \in 1..Len(rules) |-> rules[o]]
            /\ alertRules' = [o \in 1..Len(rules) |-> o]
            /\ fires' = [o \in 1..Len(rules) |-> <<>>]
            /\ activeAlerts' = FreshAlerts(rules)
    /\ call' = [pc |-> "loadStores"]
    /\ UNCHANGED <<clock, storedRules, ticks, runs, op, edits, deletedObjs, firedDeleted,
                   switchedOff, schedVars, evalVars, templates, storedTemplates,
                   scheduledNotifications, storedNotifications, registrations, sent,
                   delivered, calls, failed>>

\* startRuleMonitoring: the timer is set and processAlertRules called at once
startRuleMonitoring ==
    /\ runs' = runs + 1
    /\ LET t0 == [IdleTick EXCEPT
                    !.pc = "run", !.store0 = alertRules, !.i = 1, !.first = TRUE,
                    !.rules = enabledRules(alertRules, heap)]
       IN Commit(1, BeginRules(World(t0)))
    /\ UNCHANGED <<edits, clock, alertRules, storedRules, op, deletedObjs, switchedOff>>

\* initialize from scheduleAllNotifications on, up to its next await
AfterDefaults(notifications) ==
    LET enabled == SelectSeq(notifications, LAMBDA n : n.enabled)
    IN IF enabled # <<>>
       THEN /\ call' = [pc |-> "scheduleAll", enabled |-> enabled, j |-> 1]
            /\ UNCHANGED monVars
       ELSE /\ call' = IdleCall
            /\ startRuleMonitoring

\* setupDefaultTemplates: createTemplate of default n, up to its await on
\* saveTemplates
CreateDefault(tpls, n) ==
    LET newTemplate == [id |-> getTime(now), name |-> DefaultTemplates[n].name,
                        body |-> DefaultTemplates[n].body]
    IN /\ templates' = Append(tpls, newTemplate)
       /\ call' = [pc |-> "defaults", n |-> n, pend |-> Append(tpls, newTemplate)]

\* loadTemplates and loadScheduledNotifications: the reads return or fail;
\* then setupDefaultTemplates
loadStores ==
    /\ call.pc = "loadStores"
    /\ \E okT \in BOOLEAN, okN \in BOOLEAN :
         LET tpls == Loaded(okT, storedTemplates)
             notifications == Loaded(okN, storedNotifications)
         IN /\ scheduledNotifications' = notifications
            /\ IF tpls = <<>>
               THEN /\ CreateDefault(<<>>, 1)
                    /\ UNCHANGED monVars
               ELSE /\ templates' = tpls
                    /\ AfterDefaults(notifications)
    /\ UNCHANGED <<schedVars, evalVars, storedTemplates, storedNotifications,
                   registrations, sent, delivered, calls, failed>>

\* setupDefaultTemplates: the saveTemplates of a default's createTemplate
\* resolves, and the next default is created, or it rejects and so does
\* initialize
setupDefaultTemplates ==
    /\ call.pc = "defaults"
    /\ \E ok \in BOOLEAN :
         /\ failed' = (failed \/ ~ok)
         /\ storedTemplates' = IF ok THEN call.pend ELSE storedTemplates
         /\ IF ~ok
            THEN /\ call' = [pc |-> "rejected"]
                 /\ UNCHANGED <<monVars, templates>>
            ELSE IF call.n < Len(DefaultTemplates)
              THEN /\ CreateDefault(templates, call.n + 1)
                   /\ UNCHANGED monVars
              ELSE /\ UNCHANGED templates
                   /\ AfterDefaults(scheduledNotifications)
    /\ UNCHANGED <<schedVars, evalVars, scheduledNotifications,
                   storedNotifications, registrations, sent, delivered, calls>>

\* scheduleAllNotifications: the scheduleNotification of an enabled entry
\* resolves, or it rejects and so does initialize
scheduleAllNotifications ==
    /\ call.pc = "scheduleAll"
    /\ \E ok \in BOOLEAN :
         LET n == call.enabled[call.j]
         IN /\ failed' = (failed \/ ~ok)
            /\ registrations' = IF ok THEN MapSet(registrations, identifier(n.id),
                                                  n.nextScheduled)
                                ELSE registrations
            /\ IF ~ok
               THEN /\ call' = [pc |-> "rejected"]
                    /\ UNCHANGED monVars
               ELSE IF call.j < Len(call.enabled)
                 THEN /\ call' = [call EXCEPT !.j = @ + 1]
                      /\ UNCHANGED monVars
                 ELSE /\ call' = IdleCall
                      /\ startRuleMonitoring
    /\ UNCHANGED <<schedVars, evalVars, templates, storedTemplates,
                   scheduledNotifications, storedNotifications, sent, delivered, calls>>

(* --------------------------- specifications ---------------------------- *)
InitMon ==
    /\ clock = StepMs
    /\ heap = <<>>
    /\ alertRules = <<>>
    /\ activeAlerts = <<>>
    /\ storedRules = <<>>
    /\ ticks = [k \in Ticks |-> IdleTick]
    /\ runs = 0
    /\ op = IdleOp
    /\ edits = 0
    /\ fires = <<>>
    /\ deletedObjs = {}
    /\ firedDeleted = {}
    /\ switchedOff = {}

InitSchedIdle ==
    /\ now = DateOf(2026, 0, 26, 0)
    /\ schedule = ScheduleInput("daily", <<>>, Time0700)
    /\ nextDate = NoDate

InitSched ==
    /\ now \in NowInputs
    /\ schedule \in ScheduleInputs
    /\ nextDate = NoDate

\* nothing created, no call in progress
InitStores ==
    /\ templates = <<>>
    /\ storedTemplates = <<>>
    /\ scheduledNotifications = <<>>
    /\ storedNotifications = <<>>
    /\ registrations = <<>>
    /\ call = IdleCall
    /\ sent = <<>>
    /\ delivered = {}
    /\ calls = 0
    /\ failed = FALSE

InitEvalIdle ==
    /\ cond = CondCount
    /\ window = <<>>
    /\ verdict = "idle"

Init == InitMon /\ InitSchedIdle /\ InitStores /\ InitEvalIdle

Crud ==
    \/ \E rule \in RuleInputs : CreateStart(rule)
    \/ CreateDone
    \/ \E id \in StoreIds, updates \in UpdateInputs : UpdateStart(id, updates)
    \/ UpdateDone
    \/ \E id \in StoreIds : DeleteStart(id)
    \/ DeleteDone

TickSteps == \E k \in Ticks : ReadDone(k) \/ SaveDone(k) \/ SendDone(k)

\* a returned promise is taken up before any other task runs
Settling == \E k \in Ticks : ticks[k].pc = "done"

\* the timer callback finds the previous tick finished
NoTickRunning == \A k \in Ticks : ticks[k].pc = "idle"

TickStartSerial == NoTickRunning /\ TickStart(1)

Next ==
    \/ \E k \in Ticks : TickEnd(k)
    \/ ~Settling /\ Crud
    \/ ~Settling /\ TickStartSerial
    \/ ~Settling /\ TickSteps
    \/ ~Settling /\ Advance

Spec == Init /\ [][Next]_vars

\* a tick that outlasts the timer period: the next one starts beside it (the
\* rules are created and then left alone, so that two ticks are all that meet)
NextOverlap ==
    \/ \E k \in Ticks : TickEnd(k)
    \/ ~Settling /\ \E rule \in RuleInputs : CreateStart(rule)
    \/ ~Settling /\ CreateDone
    \/ ~Settling /\ \E k \in Ticks : TickStart(k)
    \/ ~Settling /\ TickSteps
    \/ ~Settling /\ Advance

SpecOverlap == Init /\ [][NextOverlap]_vars

\* an id no create has handed out
AbsentIds == {0}

\* rules are created, edited and tested, never deleted, beside ticks one at a
\* time: a rule object that has left the store was replaced by an update
NextEdit ==
    \/ \E k \in Ticks : TickEnd(k)
    \/ ~Settling /\ \E rule \in RuleInputs : CreateStart(rule)
    \/ ~Settling /\ CreateDone
    \/ ~Settling /\ \E id \in StoreIds, updates \in UpdateInputs : UpdateStart(id, updates)
    \/ ~Settling /\ UpdateDone
    \/ ~Settling /\ \E ruleId \in StoreIds \cup AbsentIds : testRule(ruleId)
    \/ ~Settling /\ TestReadDone
    \/ ~Settling /\ TestReturn
    \/ ~Settling /\ TickStartSerial
    \/ ~Settling /\ TickSteps
    \/ ~Settling /\ Advance

SpecEdit == Init /\ [][NextEdit]_vars

\* the schedule calculator on its own, over its inputs
NextSched == Calculate

InitCalc == InitMon /\ InitSched /\ InitStores /\ InitEvalIdle

SpecSched == InitCalc /\ [][NextSched]_vars

\* the stores and the platform scheduler, without the monitor's ticks
TemplateInputs == { [name |-> "alert", body |-> <<"Rule ", "{rule_name}">>] }

TemplateUpdates == { [body |-> <<"Total: ", "$", "{total_amount}">>] }

NotificationInputs ==
    { [schedule |-> ScheduleInput("daily", <<>>, Time0700), template |-> t, enabled |-> e] :
        t \in IdsOf(templates) \cup AbsentIds, e \in BOOLEAN }

NotificationUpdates ==
    { [enabled |-> FALSE], [enabled |-> TRUE],
      [schedule |-> ScheduleInput("daily", <<>>, Time0930)] }

\* a rule with one push action, for each template it may name
StoreRuleInputs ==
    { [name |-> <<"Low funds">>, enabled |-> TRUE, conditions |-> <<>>,
       actions |-> <<[type |-> "push", template |-> t]>>, cooldown |-> 0] :
        t \in IdsOf(templates) \cup AbsentIds }

\* the activity windows a rendering may read
Donation(a, m, name) == [amount |-> a, memberId |-> m, memberName |-> name]

RenderWindows ==
    { <<>>, <<Donation(5, "m1", <<"Ann">>), Donation(20, "m2", <<"Bob">>)>> }

InitService ==
    /\ InitMon
    /\ now = StartDate
    /\ schedule = ScheduleInput("daily", <<>>, Time0700)
    /\ nextDate = NoDate
    /\ InitStores
    /\ InitEvalIdle

\* a rule of the store fires: triggerRule runs its actions
RuleFires ==
    \E o \in Range(alertRules), readOk \in BOOLEAN, contributions \in RenderWindows :
        /\ heap[o].enabled
        /\ \E j \in 1..Len(heap[o].actions) : executeAction(o, j, readOk, contributions)

\* the scheduled notifications and the platform scheduler
NextStores ==
    \/ \E notification \in NotificationInputs : createScheduledNotification(notification)
    \/ \E id \in IdsOf(scheduledNotifications), updates \in NotificationUpdates :
         updateScheduledNotification(id, updates)
    \/ \E id \in IdsOf(scheduledNotifications) : deleteScheduledNotification(id)
    \/ saveScheduledNotifications
    \/ scheduleNotification
    \/ cancelScheduledNotification
    \/ PassTime
    \/ \E ident \in DOMAIN registrations : Fire(ident)

SpecStores == InitService /\ [][NextStores]_vars

\* the three stores called one call at a time, with ids present and absent
NextCalls ==
    \/ op.pc = "idle" /\ \E template \in TemplateInputs : createTemplate(template)
    \/ op.pc = "idle" /\ \E id \in IdsOf(templates) \cup AbsentIds,
                             updates \in TemplateUpdates : updateTemplate(id, updates)
    \/ op.pc = "idle" /\ \E id \in IdsOf(templates) \cup AbsentIds : deleteTemplate(id)
    \/ saveTemplates
    \/ op.pc = "idle" /\ \E notification \in NotificationInputs :
                            createScheduledNotification(notification)
    \/ op.pc = "idle" /\ \E id \in IdsOf(scheduledNotifications) \cup AbsentIds,
                             updates \in NotificationUpdates :
                            updateScheduledNotification(id, updates)
    \/ op.pc = "idle" /\ \E id \in IdsOf(scheduledNotifications) \cup AbsentIds :
                            deleteScheduledNotification(id)
    \/ saveScheduledNotifications
    \/ scheduleNotification
    \/ cancelScheduledNotification
    \/ call.pc = "idle" /\ \E rule \in StoreRuleInputs : CreateStart(rule)
    \/ CreateDone
    \/ call.pc = "idle" /\ \E id \in StoreIds \cup AbsentIds, updates \in UpdateInputs :
                              UpdateStart(id, updates)
    \/ UpdateDone
    \/ call.pc = "idle" /\ \E id \in StoreIds \cup AbsentIds : DeleteStart(id)
    \/ DeleteDone

SpecCalls == InitService /\ [][NextCalls]_vars

\* the template store, with rules and scheduled notifications that name its
\* templates, and the rules of the store firing
NextTemplates ==
    \/ \E template \in TemplateInputs : createTemplate(template)
    \/ \E id \in IdsOf(templates), updates \in TemplateUpdates : updateTemplate(id, updates)
    \/ \E id \in IdsOf(templates) : deleteTemplate(id)
    \/ saveTemplates
    \/ \E notification \in NotificationInputs : createScheduledNotification(notification)
    \/ saveScheduledNotifications
    \/ scheduleNotification
    \/ \E rule \in StoreRuleInputs : CreateStart(rule)
    \/ CreateDone
    \/ RuleFires

SpecTemplates == InitService /\ [][NextTemplates]_vars

\* the service from a fresh install on, with the process started anew at any
\* moment: rules are created and ticks run one at a time
InitBoot ==
    /\ InitMon
    /\ now = StartDate
    /\ schedule = ScheduleInput("daily", <<>>, Time0700)
    /\ nextDate = NoDate
    /\ templates = <<>>
    /\ storedTemplates = <<>>
    /\ scheduledNotifications = <<>>
    /\ storedNotifications = <<>>
    /\ registrations = <<>>
    /\ call = [pc |-> "fresh"]
    /\ sent = <<>>
    /\ delivered = {}
    /\ calls = 0
    /\ failed = FALSE
    /\ InitEvalIdle

\* initialize has completed: the monitor's timer is set
Running == call.pc = "idle"

NextBoot ==
    \/ initialize
    \/ loadAlertRules
    \/ loadStores
    \/ setupDefaultTemplates
    \/ Running /\ ~Settling /\ \E rule \in RuleInputs : CreateStart(rule)
    \/ CreateDone
    \/ \E k \in Ticks : TickEnd(k)
    \/ Running /\ ~Settling /\ TickStartSerial
    \/ ~Settling /\ TickSteps
    \/ ~Settling /\ Advance

SpecBoot == InitBoot /\ [][NextBoot]_vars

\* scheduled notifications that name the first template of the store
InstallInputs ==
    { [schedule |-> ScheduleInput("daily", <<>>, Time0700), template |-> templates[1].id,
       enabled |-> e] : e \in BOOLEAN }

\* start-up on the side of the stores: the default templates and scheduled
\* notifications are created while the wall clock moves on, and no rule is
NextInstall ==
    \/ initialize
    \/ loadAlertRules
    \/ loadStores
    \/ setupDefaultTemplates
    \/ scheduleAllNotifications
    \/ Running /\ \E notification \in InstallInputs :
                     createScheduledNotification(notification)
    \/ saveScheduledNotifications
    \/ scheduleNotification
    \/ \E k \in Ticks : TickEnd(k)
    \/ PassTime

SpecInstall == InitBoot /\ [][NextInstall]_vars

(* ---------------------- the evaluator on its own ----------------------- *)
KnownFields == {"total_amount", "contribution_count", "average_amount",
                "unique_contributors", "platform_usage", "member_activity",
                "time_since_last"}

KnownOperators == {"equals", "greater_than", "less_than", "contains", "between"}

\* the conditions evaluateCondition is called with: every field and operator
\* of the types, and one of each that the types do not have
EvalConditions ==
    [ field : KnownFields \cup {"streak_length"},
      operator : KnownOperators \cup {"not_equals"},
      value : {NumV(0), NumV(2), StrV("mpesa"), StrV("m1"), RangeV(10, 25), RangeV(25, 30),
               RangeV(0, 2), RangeV(6, 24)} ]

EvalWindows == Windows \cup { <<Contribution(5, "m1", "mpesa")>> }

InitEval ==
    /\ InitMon
    /\ InitSchedIdle
    /\ InitStores
    /\ cond \in EvalConditions
    /\ window \in EvalWindows
    /\ verdict = "none"

\* one call of evaluateCondition, the activity read returning `window`
Evaluate ==
    /\ verdict = "none"
    /\ verdict' = IF evaluateCondition(cond, window, clock) THEN "true" ELSE "false"
    /\ UNCHANGED <<monVars, schedVars, storeVars, cond, window>>

NextEval == Evaluate

SpecEval == InitEval /\ [][NextEval]_vars

\* the renderer on its own: one template and one rule whose action names it
RenderBodies ==
    { <<"Rule ", "{rule_name}", " at ", "{timestamp}">>,
      <<"Total: ", "$", "{total_amount}", " in ", "{contribution_count}", " gifts">>,
      <<"{unique_contributors}", " givers, latest ", "{latest_contribution}",
        ", ", "{unknown}">>,
      <<"{rule_name}", " again ", "{rule_name}">>,
      <<"nothing to fill in">> }

RenderNames ==
    { <<"Low funds">>, <<"$", "$", " alert">>, <<"Watch ", "{contribution_count}">>,
      <<"R", "&", "D">> }

RenderInputs == RenderWindows \cup { <<Donation(125, "m3", <<"Cy">>)>> }

InitRender ==
    /\ now = StartDate
    /\ schedule = ScheduleInput("daily", <<>>, Time0700)
    /\ nextDate = NoDate
    /\ cond = CondCount
    /\ window \in RenderInputs
    /\ verdict = "idle"
    /\ clock = StepMs
    /\ \E name \in RenderNames :
         heap = <<[id |-> StepMs, name |-> name, enabled |-> TRUE, conditions |-> <<>>,
                   actions |-> <<[type |-> "push", template |-> getTime(StartDate)]>>,
                   cooldown |-> 0, lastTriggered |-> 0]>>
    /\ alertRules = <<1>>
    /\ storedRules = heap
    /\ activeAlerts = <<>>
    /\ ticks = [k \in Ticks |-> IdleTick]
    /\ runs = 0
    /\ op = IdleOp
    /\ edits = 0
    /\ fires = <<<<>>>>
    /\ deletedObjs = {}
    /\ firedDeleted = {}
    /\ switchedOff = {}
    /\ \E body \in RenderBodies :
         templates = <<[id |-> getTime(StartDate), name |-> "alert", body |-> body]>>
    /\ storedTemplates = templates
    /\ scheduledNotifications = <<>>
    /\ storedNotifications = <<>>
    /\ registrations = <<>>
    /\ call = IdleCall
    /\ sent = <<>>
    /\ delivered = {}
    /\ calls = 0
    /\ failed = FALSE

\* the rule fires and its action is executed, the activity read returning `window`
NextRender == executeAction(1, 1, TRUE, window)

SpecRender == InitRender /\ [][NextRender]_vars

(* ------------------------------- claims -------------------------------- *)
Entries == {<<k, j>> \in Ticks \X (1..MaxCreates) : j <= Len(ticks[k].log)}
EntryOf(kj) == ticks[kj[1]].log[kj[2]]
RuleOf(kj) == heap[ticks[kj[1]].rules[kj[2]]]
\* the rule's evaluation in that tick is over
Finished(kj) == kj[2] < ticks[kj[1]].i

\* the rule objects in the store: enabled or not since their creation, and
\* never edited (an update puts a new object in the place of the old one)
Unedited == {o \in Range(alertRules) : heap[o].enabled}

\* the last two triggers of rule object o are at least its cooldown apart
Spaced(o) ==
    Len(fires[o]) = 2 => fires[o][2] - fires[o][1] >= heap[o].cooldown * MsPerMinute

\* C1: with ticks one at a time, a rule that stays enabled and unedited is
\* never triggered twice less than its cooldown (in minutes) apart
C1_CooldownSpacing == \A o \in Unedited : Spaced(o)

\* the same for the rules whose id no other rule object carries
CooldownSpacingDistinctIds ==
    \A o \in Unedited :
        (\A p \in Objs \ {o} : heap[p].id # heap[o].id) => Spaced(o)

\* C2: once deleteAlertRule(id) has completed, the cooldown map has no entry
\* for id and the deleted rule is never triggered again
C2_NoTriggerAfterDelete ==
    /\ firedDeleted = {}
    /\ \A o \in deletedObjs :
          heap[o].id \notin StoreIds => heap[o].id \notin DOMAIN activeAlerts

\* C3: a tick never raises, and when it ends every rule that was enabled at
\* its start has been evaluated, whichever of them threw
C3_RuleFailureIsolation ==
    \A k \in Ticks :
        LET t == ticks[k]
        IN /\ t.pc # "raised"
           /\ t.rules = SelectSeq(t.store0, LAMBDA o : heap[o].enabled)
           /\ t.pc = "done" =>
                 /\ Len(t.log) = Len(t.rules)
                 /\ \A j \in 1..Len(t.log) : t.log[j].outcome # "pending"

\* a tick ended after its first rule threw and a later rule was evaluated
C3_Witness ==
    \E k \in Ticks :
        /\ ticks[k].pc = "done"
        /\ Len(ticks[k].log) >= 2
        /\ ticks[k].log[1].outcome \in {"evalerror", "savefail"}

\* C4: once a fired rule's dispatch is over, each of its actions has been
\* attempted exactly once, in list order, whichever of them failed
C4_ActionFailureIsolation ==
    \A kj \in Entries :
        LET acts == EntryOf(kj).acts
        IN /\ \A x \in 1..Len(acts) : acts[x].idx = x
           /\ (Finished(kj) /\ EntryOf(kj).outcome = "fired") =>
                 Len(acts) = Len(RuleOf(kj).actions)

\* the first action of a fired rule failed and the second was still attempted
C4_Witness ==
    \E kj \in Entries :
        /\ Finished(kj)
        /\ Len(EntryOf(kj).acts) = 2
        /\ ~EntryOf(kj).acts[1].ok

\* C5: a tick's pool holds every rule enabled at its start, and a rule without
\* conditions that no cooldown holds back is triggered, with no activity read
C5_EmptyConditionsTrigger ==
    \A k \in Ticks :
        LET t == ticks[k]
        IN /\ \A o \in Range(t.store0) : heap[o].enabled => o \in Range(t.rules)
           /\ t.pc = "read" => heap[t.rules[t.i]].conditions # <<>>
           /\ \A j \in 1..Len(t.log) :
                 (heap[t.rules[j]].conditions = <<>> /\ t.log[j].eligible) =>
                     t.log[j].outcome \in {"fired", "savefail"}

\* a rule without conditions fired again once its cooldown had passed
C5_Witness ==
    \E kj \in Entries :
        /\ RuleOf(kj).conditions = <<>>
        /\ RuleOf(kj).cooldown > 0
        /\ EntryOf(kj).outcome = "fired"
        /\ LET f == fires[ticks[kj[1]].rules[kj[2]]]
           IN Len(f) = 2 /\ f[2] - f[1] >= RuleOf(kj).cooldown * MsPerMinute

\* C6: a rule is triggered in a tick only after each of its conditions, in
\* list order, evaluated true in that tick; the first false one ends it
C6_AllConditionsTrue ==
    \A kj \in Entries :
        LET e == EntryOf(kj)
        IN /\ e.outcome \in {"fired", "savefail"} =>
                 /\ Len(e.evals) = Len(RuleOf(kj).conditions)
                 /\ \A x \in 1..Len(e.evals) : e.evals[x]
           /\ \A x \in 1..Len(e.evals) :
                 ~e.evals[x] => x = Len(e.evals) /\ e.outcome = "condfalse"

\* a rule with two conditions fired
C6_Witness ==
    \E kj \in Entries :
        /\ EntryOf(kj).outcome = "fired"
        /\ EntryOf(kj).evals = <<TRUE, TRUE>>

\* C7: after a completed updateAlertRule switched a rule off, the cooldown map
\* has no entry for it
C7_DisableDiscardsCooldown ==
    \A id \in switchedOff : id \notin DOMAIN activeAlerts

\* what the schedule times mean: the minute of the day
MinuteOfDay(time) == CASE time = Time0700 -> 7 * 60
                       [] time = Time0930 -> 9 * 60 + 30

\* HH:MM on the day k days after today
SlotAfter(k) ==
    LET r == MakeDay(now.y, now.m, now.d + k)
    IN DateOf(r.y, r.m, r.d, MinuteOfDay(schedule.time))

Calculated(type) == schedule.type = type /\ nextDate # NoDate

\* the slots after `now` on a day whose day-of-week is configured
WeeklySlots ==
    {s \in {SlotAfter(k) : k \in 0..7} :
        getDay(s) \in Range(schedule.days) /\ getTime(s) > getTime(now)}

\* C8: for a weekly schedule the result is the earliest HH:MM after `now` on
\* a day whose day-of-week is in the configured set
C8_WeeklyNextFire ==
    Calculated("weekly") =>
        /\ nextDate \in WeeklySlots
        /\ \A s \in WeeklySlots : getTime(nextDate) <= getTime(s)

\* C9: for a daily schedule the result is today at HH:MM when that is after
\* `now` and tomorrow at HH:MM otherwise, so later than `now` by at most a day
C9_DailyNextFire ==
    Calculated("daily") =>
        /\ nextDate = IF getTime(SlotAfter(0)) > getTime(now)
                      THEN SlotAfter(0) ELSE SlotAfter(1)
        /\ getTime(nextDate) > getTime(now)
        /\ getTime(nextDate) <= getTime(now) + 24 * 60

\* `now` is exactly HH:MM on the last day of a month: the result is the 1st
C9_Witness ==
    /\ Calculated("daily")
    /\ now.min = MinuteOfDay(schedule.time)
    /\ nextDate.m # now.m
    /\ nextDate.d = 1

\* the configured day of the month, held to the length of the month
Clamp(day, y, m) == IF day > DaysInMonth(y, m) THEN DaysInMonth(y, m) ELSE day

\* the slots after `now` on a configured day of the month
MonthlySlots ==
    {s \in {SlotAfter(k) : k \in 0..62} :
        /\ \E day \in Range(schedule.days) : s.d = Clamp(day, s.y, s.m)
        /\ getTime(s) > getTime(now)}

\* C10: for a monthly schedule the result is the earliest HH:MM after `now` on
\* a configured day of the month, a day past the month's end counting as its
\* last day
C10_MonthlyNextFire ==
    Calculated("monthly") =>
        /\ nextDate \in MonthlySlots
        /\ \A s \in MonthlySlots : getTime(nextDate) <= getTime(s)

\* no two scheduled notifications of the store share an id
DistinctNotificationIds ==
    \A i, j \in 1..Len(scheduledNotifications) :
        scheduledNotifications[i].id = scheduledNotifications[j].id => i = j

\* no call is in progress and none so far was rejected by storage or scheduler
CallsCompleted == call.pc = "idle" /\ ~failed

\* C11: after the calls so far have completed without error, the trigger date
\* registered for an enabled scheduled notification equals its stored
\* nextScheduled (a schedule edit replaces the registration)
C11_ReregisterOnScheduleEdit ==
    (CallsCompleted /\ DistinctNotificationIds) =>
        \A j \in 1..Len(scheduledNotifications) :
            LET n == scheduledNotifications[j]
            IN (n.enabled /\ identifier(n.id) \in DOMAIN registrations) =>
                  registrations[identifier(n.id)] = n.nextScheduled

\* no registered trigger date is reached and none has fired
BeforeAnyFire ==
    /\ delivered = {}
    /\ \A ident \in DOMAIN registrations : registrations[ident] > getTime(now)

\* the scheduler holds a registration for exactly the ids of enabled stored
\* notifications
RegisteredIffEnabled ==
    /\ \A ident \in DOMAIN registrations :
          \E j \in 1..Len(scheduledNotifications) :
             /\ identifier(scheduledNotifications[j].id) = ident
             /\ scheduledNotifications[j].enabled
    /\ \A j \in 1..Len(scheduledNotifications) :
          scheduledNotifications[j].enabled =>
             identifier(scheduledNotifications[j].id) \in DOMAIN registrations

\* C12: after create, update and delete calls that completed without error,
\* before any fire time, an id is registered with the scheduler if and only if
\* a notification with that id is in the store and enabled
C12_RegisteredIffEnabled ==
    (CallsCompleted /\ BeforeAnyFire) => RegisteredIffEnabled

\* the same where every create got an id of its own
RegisteredIffEnabledDistinctIds ==
    (CallsCompleted /\ BeforeAnyFire /\ DistinctNotificationIds) => RegisteredIffEnabled

\* C13: an update or delete of an alert rule, a template or a scheduled
\* notification whose id is absent is rejected at the lookup: no such call gets
\* as far as changing a store, the cooldown map or the scheduler
C13_NotFoundRejection ==
    /\ call.pc # "idle" => call.found
    /\ op.pc = "delete" => op.removed # {}

\* C14: evaluateCondition returns false for every condition whose field or
\* whose operator is not a known one, whatever the activity window
C14_FailClosed ==
    (verdict # "none" /\ (cond.field \notin KnownFields
                          \/ cond.operator \notin KnownOperators))
        => verdict = "false"

\* the value a field derives from the window, for the fields that compare a
\* plain number
Metric(field, w) ==
    CASE field = "total_amount" -> Rat(SumAmounts(w), 1)
      [] field = "contribution_count" -> Rat(Len(w), 1)
      [] field = "average_amount" ->
            IF Len(w) > 0 THEN Rat(SumAmounts(w), Len(w)) ELSE Rat(0, 1)
      [] field = "unique_contributors" ->
            Rat(Cardinality({w[j].memberId : j \in 1..Len(w)}), 1)

PlainFields == {"total_amount", "contribution_count", "average_amount",
                "unique_contributors"}

\* C15: `between` is inclusive at both ends: for a derived value v and a
\* condition value {min, max} the result is true exactly when min <= v <= max
C15_BetweenInclusive ==
    (/\ verdict \notin {"none", "idle"}
     /\ cond.operator = "between"
     /\ cond.value.k = "range"
     /\ cond.field \in PlainFields)
        => LET v == Metric(cond.field, window)
           IN (verdict = "true") <=>
                 (cond.value.min * v.d <= v.n /\ v.n <= cond.value.max * v.d)

\* the total of the window is the upper end of the range, and the lower end
C15_Witness ==
    /\ verdict = "true"
    /\ cond.operator = "between"
    /\ cond.field = "total_amount"
    /\ cond.value = RangeV(10, 25)
    /\ SumAmounts(window) = 25

\* a step of deleteTemplate: up to its save, or the save's completion
DeleteTemplateStep ==
    \/ call.pc = "idle" /\ call'.pc = "saveTemplates" /\ call'.kind = "delete"
    \/ call.pc = "saveTemplates" /\ call.kind = "delete" /\ call'.pc = "idle"

\* the executeAction call made in this step, if one was made
Dispatch == sent'[Len(sent')]

KnownPlaceholders == {"{rule_name}", "{timestamp}", "{total_amount}",
                      "{contribution_count}", "{unique_contributors}",
                      "{latest_contribution}"}

\* the snapshot value of a known placeholder
ValueOf(piece, variables) ==
    LET j == CHOOSE x \in 1..Len(variables) : variables[x][1] = piece
    IN variables[j][2]

\* the body with every known placeholder replaced by its snapshot value and
\* everything else as it stands
RECURSIVE Filled(_, _)
Filled(body, variables) ==
    IF body = <<>> THEN <<>>
    ELSE (IF Head(body) \in KnownPlaceholders THEN ValueOf(Head(body), variables)
          ELSE <<Head(body)>>) \o Filled(Tail(body), variables)

\* the total of the window with two decimals (the amounts are whole)
TwoDecimals(contributions) == <<ToString(SumAmounts(contributions)), ".", "0", "0">>

\* C17: the rendered message is the template body with every occurrence of the
\* six known placeholders replaced by its snapshot value and all other text,
\* unknown placeholders included, verbatim; total_amount has two decimals
C17_RenderingReplacesPlaceholders ==
    sent # <<>> =>
        /\ sent[1].message = Filled(templates[1].body, Variables(heap[1], window))
        /\ ValueOf("{total_amount}", Variables(heap[1], window)) = TwoDecimals(window)

\* the same for rule names without a dollar sign and without a placeholder
RenderingPlainNames ==
    (sent # <<>> /\ \A j \in 1..Len(heap[1].name) :
                        heap[1].name[j] \notin KnownPlaceholders \cup {"$"})
        => sent[1].message = Filled(templates[1].body, Variables(heap[1], window))

\* a rule mutation completes in this step with its storage write done
RuleWriteCompletes ==
    \/ CreateSettled(TRUE)
    \/ UpdateSettled(TRUE)
    \/ DeleteSettled(TRUE)
    \/ \E k \in Ticks : SaveSettled(k, TRUE)

\* C18: when a create, update or delete of an alert rule completes without a
\* storage error, and when the save of a rule trigger completes, the persisted
\* rules document equals the in-memory rule collection at that moment
C18_FullRewrite ==
    [][RuleWriteCompletes => storedRules' = Snapshot(alertRules', heap')]_vars

\* C19: once the registration of an enabled scheduled notification has fired,
\* and the service has nothing left in progress, the scheduler holds a
\* registration for that notification again (its next occurrence)
C19_RecurrenceContinues ==
    CallsCompleted =>
        \A j \in 1..Len(scheduledNotifications) :
            LET n == scheduledNotifications[j]
            IN (n.enabled /\ identifier(n.id) \in delivered) =>
                  /\ identifier(n.id) \in DOMAIN registrations
                  /\ n.nextScheduled > getTime(now)

\* no two rule objects have the same id
DistinctRuleIds == \A o1, o2 \in Objs : heap[o1].id = heap[o2].id => o1 = o2

\* a rule whose cooldown, counted from its own last trigger, has run out (or
\* that has none) is not suppressed, and is triggered when its conditions hold
ReArmed(kj) ==
    EntryOf(kj).armed =>
        /\ EntryOf(kj).outcome # "suppressed"
        /\ (/\ Finished(kj)
            /\ Len(EntryOf(kj).evals) = Len(RuleOf(kj).conditions)
            /\ \A x \in 1..Len(EntryOf(kj).evals) : EntryOf(kj).evals[x])
              => EntryOf(kj).outcome \in {"fired", "savefail"}

\* C20: an enabled rule whose conditions hold is triggered again by the first
\* tick at or after its last trigger plus its cooldown, and on every tick when
\* it has no cooldown (rules that were never edited)
C20_ReArming == edits = 0 => \A kj \in Entries : ReArmed(kj)

\* the same where every rule got an id of its own
ReArmingDistinctIds == (edits = 0 /\ DistinctRuleIds) => \A kj \in Entries : ReArmed(kj)

\* the rule objects whose id no other rule object carries
DistinctId(o) == \A p \in Objs \ {o} : heap[p].id # heap[o].id

\* C21 as stated: with a second tick starting while the first is suspended, a
\* rule with cooldown C is still never triggered twice less than C minutes apart
C21_OverlapCooldown == \A o \in Unedited : DistinctId(o) => Spaced(o)

\* the rule's turn ended in triggerRule
Triggered(kj) == EntryOf(kj).outcome \in {"fired", "savefail"}

\* C21 as amended: a tick triggers a rule only if its cooldown check passed
\* when it made the check, and holds the rule back only if the check failed
\* then; a check made after a trigger was recorded counts that trigger
C21_CheckedCooldown ==
    \A kj \in Entries :
        /\ Triggered(kj) => EntryOf(kj).eligible
        /\ EntryOf(kj).outcome = "suppressed" => ~EntryOf(kj).eligible

\* two ticks in flight both passed the cooldown check and both triggered the
\* same rule at the same instant
C21_Witness ==
    \E o \in Objs :
        /\ heap[o].cooldown > 0
        /\ fires[o] = <<clock, clock>>
        /\ \A k \in Ticks :
              \E j \in 1..Len(ticks[k].log) :
                  ticks[k].rules[j] = o /\ Triggered(<<k, j>>) /\ ticks[k].log[j].eligible

\* the rule object tick k is busy with in tick record t
Current(t) == t.rules[t.i]

\* tick k enters triggerRule in this step
TriggerStep(k) == ticks'[k].pc = "saving" /\ ticks'[k] # ticks[k]

\* tick k comes back from a dispatch (executeAction) in this step
DispatchStep(k) == ticks[k].pc = "send" /\ ticks'[k] # ticks[k]

\* C22: a trigger records the cooldown timestamp and lastTriggered at once,
\* the first dispatch comes after the save of the rule store, and a dispatch,
\* failed or not, takes nothing of that record back; a tick that finds the
\* record younger than the cooldown dispatches nothing for the rule
C22_RecordBeforeDispatch ==
    [][\A k \in Ticks :
         /\ \A j \in 1..Len(ticks[k].log) :
               ~ticks[k].log[j].eligible =>
                   ticks[k].log[j].outcome = "suppressed" /\ ticks[k].log[j].acts = <<>>
         /\ TriggerStep(k) =>
               LET o == Current(ticks'[k])
               IN /\ heap'[o].id \in DOMAIN activeAlerts'
                  /\ activeAlerts'[heap'[o].id] = clock
                  /\ heap'[o].lastTriggered = clock
                  /\ ticks'[k].log[Len(ticks'[k].log)].acts = <<>>
         /\ (ticks'[k].pc = "send" /\ ticks[k].pc # "send") =>
               /\ ticks[k].pc = "saving"
               /\ storedRules' = ticks[k].pend
               /\ ticks'[k].log[Len(ticks'[k].log)].acts = <<>>
         /\ DispatchStep(k) =>
               LET o == Current(ticks[k])
                   id == heap[o].id
               IN /\ heap'[o].lastTriggered = heap[o].lastTriggered
                  /\ storedRules' = storedRules
                  /\ id \in DOMAIN activeAlerts =>
                        /\ id \in DOMAIN activeAlerts'
                        /\ activeAlerts'[id] >= activeAlerts[id]
      ]_vars

\* both actions of a fired rule failed, and the rule is still held back: the
\* cooldown entry and lastTriggered of its trigger stand
C22_Witness ==
    \E kj \in Entries :
        LET o == ticks[kj[1]].rules[kj[2]]
        IN /\ Finished(kj)
           /\ Len(EntryOf(kj).acts) = 2
           /\ \A x \in 1..2 : ~EntryOf(kj).acts[x].ok
           /\ heap[o].id \in DOMAIN activeAlerts
           /\ activeAlerts[heap[o].id] = heap[o].lastTriggered
           /\ CooldownActive(heap[o], activeAlerts, clock)

\* C23: the pool of a tick is the rules that are in the store and enabled when
\* it starts, each once, and stays that for the whole tick; only rules of a
\* running tick's pool get a turn or are triggered, one turn for each
C23_PoolFixedAtStart ==
    [][/\ \A k \in Ticks :
            /\ (ticks[k].pc = "idle" /\ ticks'[k].pc # "idle") =>
                  /\ Range(ticks'[k].rules) = {o \in Range(alertRules) : heap[o].enabled}
                  /\ Len(ticks'[k].rules) = Cardinality(Range(ticks'[k].rules))
            /\ (ticks[k].pc # "idle" /\ ticks'[k].pc # "idle") =>
                  /\ ticks'[k].rules = ticks[k].rules
                  /\ Len(ticks'[k].log) >= Len(ticks[k].log)
            /\ Len(ticks'[k].log) <= Len(ticks'[k].rules)
            /\ ticks'[k].i >= Len(ticks'[k].log)
       /\ \A o \in Objs :
            fires'[o] # fires[o] =>
                /\ heap[o].enabled
                /\ \E k \in Ticks : o = Current(ticks'[k])
      ]_vars

\* a tick has run to its end over a store that holds a rule switched off
\* before it started, a rule that would fire at once if it had a turn
C23_Witness ==
    \E k \in Ticks, o \in Objs :
        /\ ticks[k].pc = "done"
        /\ o \in Range(ticks[k].store0)
        /\ ~heap[o].enabled
        /\ heap[o].conditions = <<>>
        /\ heap[o].id \notin DOMAIN activeAlerts
        /\ o \notin Range(ticks[k].rules)
        /\ fires[o] = <<>>
        /\ \E j \in 1..Len(ticks[k].log) : ticks[k].log[j].outcome = "fired"

\* initialize is past loadAlertRules and has not started the monitor yet
Loading == call.pc \in {"loadStores", "defaults", "scheduleAll"}

\* every condition of the rule was evaluated in this turn, and to true
ConditionsHeld(kj) ==
    /\ Len(EntryOf(kj).evals) = Len(RuleOf(kj).conditions)
    /\ \A x \in 1..Len(EntryOf(kj).evals) : EntryOf(kj).evals[x]

Quiescent == op.pc = "idle" /\ NoTickRunning

\* C25: whenever no operation or tick is in progress, every id with an entry
\* in the cooldown map is the id of an enabled rule of the store
C25_CooldownMapHygiene ==
    Quiescent =>
        \A id \in DOMAIN activeAlerts :
            \E o \in Range(alertRules) : heap[o].id = id /\ heap[o].enabled

\* C26: once the turn of a rule whose trigger was recorded is over, every
\* action of the rule has been attempted in that tick, also when the write of
\* the rule store failed
C26_TriggerDispatchesAll ==
    \A kj \in Entries :
        (Finished(kj) /\ Triggered(kj)) =>
            Len(EntryOf(kj).acts) = Len(RuleOf(kj).actions)

\* the rule of the store that carries the id of rule object o, when there is
\* exactly one and it is another object: what an update put in o's place
Successors(o) ==
    {p \in Range(alertRules) \ {o} :
        /\ heap[p].id = heap[o].id
        /\ \A q \in Range(alertRules) : heap[q].id = heap[o].id => q = p}

\* C27: when a tick triggers a rule that a completed update replaced while the
\* tick was suspended on it, the rule of the store carries the lastTriggered
\* of that trigger, and so does the document the trigger writes
C27_NoLostTriggerRecord ==
    [][\A k \in Ticks :
         (TriggerStep(k) /\ op.pc = "idle") =>
             LET o == Current(ticks'[k])
                 doc == ticks'[k].pend
             IN \A p \in Successors(o) :
                    /\ heap'[p].lastTriggered = clock
                    /\ \A x \in 1..Len(doc) :
                          doc[x].id = heap[o].id => doc[x].lastTriggered = clock
      ]_vars

\* no two entries of a store share an id
DistinctIds(store) == \A i, j \in 1..Len(store) : store[i].id = store[j].id => i = j

\* C28: no two alert rules of the store share an id, no two templates do (the
\* default templates of initialize among them), and no two scheduled
\* notifications do
C28_IdUniqueness ==
    /\ DistinctIds(Snapshot(alertRules, heap))
    /\ DistinctIds(templates)
    /\ DistinctIds(scheduledNotifications)

\* a step of a testRule call
TestStep == op' # op /\ (op.pc \in {"test", "tested"} \/ op'.pc \in {"test", "tested"})

\* C29: no step of testRule changes the rule store, a rule object, the
\* cooldown map, a persisted document, a tick or a channel; it answers true
\* when no cooldown held the rule back at the call and every condition then
\* evaluated true, false when the cooldown did or a condition evaluated
\* false, and rejects for an id that is not in the store
C29_TestRuleDryRun ==
    [][TestStep =>
         /\ UNCHANGED <<heap, alertRules, activeAlerts, storedRules, ticks, fires,
                        templates, storedTemplates, scheduledNotifications,
                        storedNotifications, registrations, sent, delivered>>
         /\ op'.pc = "tested" =>
               LET r == op'
                   held == /\ Len(r.evals) = Len(heap[r.o].conditions)
                           /\ \A x \in 1..Len(r.evals) : r.evals[x]
               IN /\ (op.pc = "idle" /\ r.id \notin StoreIds) => r.result = "rejected"
                  /\ r.result = "true" => r.o # 0 /\ r.eligible /\ held
                  /\ r.result = "false" =>
                        /\ r.o # 0
                        /\ \/ ~r.eligible /\ r.evals = <<>>
                           \/ r.eligible /\ r.evals # <<>> /\ ~r.evals[Len(r.evals)]
                  /\ (r.o # 0 /\ r.eligible /\ held) => r.result = "true"
                  /\ (r.o # 0 /\ ~r.eligible) => r.result = "false"
      ]_vars

\* testRule answered true for a rule whose cooldown has just run out, and
\* the entry of its last trigger is in the cooldown map as it was
C29_Witness ==
    /\ op.pc = "tested"
    /\ op.result = "true"
    /\ heap[op.o].cooldown > 0
    /\ op.id \in DOMAIN activeAlerts
    /\ activeAlerts[op.id] = clock - heap[op.o].cooldown * MsPerMinute
    /\ heap[op.o].lastTriggered = activeAlerts[op.id]

\* the records of the window that a platform_usage or member_activity
\* condition counts
Selected ==
    {j \in 1..Len(window) :
        /\ cond.value.k = "str"
        /\ \/ cond.field = "platform_usage" /\ window[j].platform = cond.value.s
           \/ cond.field = "member_activity" /\ window[j].memberId = cond.value.s}

\* a string that is not empty and that Number() does not read as a number
NonNumericString(v) == v.k = "str" /\ v.s # "" /\ NumberOfString(v.s) < 0

\* C30: a platform_usage or member_activity condition whose value is a
\* non-empty, non-numeric string evaluates false, for every operator and
\* every window, also one that holds records of that platform or member
C30_NameValueNeverTrue ==
    (/\ verdict # "none"
     /\ cond.field \in {"platform_usage", "member_activity"}
     /\ NonNumericString(cond.value)) => verdict = "false"

\* a member_activity condition naming a member with a record in the window
\* was evaluated with the operator greater_than
C30_Witness ==
    /\ verdict = "false"
    /\ cond.field = "member_activity"
    /\ cond.operator = "greater_than"
    /\ NonNumericString(cond.value)
    /\ Selected # {}

====
